---- MODULE Spec2Model ----
(***************************************************************************)
(* The concurrent file replication engine of hatcher                       *)
(* (internal/autocopy, ParallelCopier): discovery of copy tasks, the       *)
(* bounded task queue fed by one producer, the worker pool, the progress   *)
(* and error streams with their consumers, and the coordinator Run.        *)
(* With it, the removal of a worktree and its branches                     *)
(* (internal/worktree, Remover.RemoveWorktree) on a git repository.        *)
(*                                                                         *)
(* Every goroutine is a process with a program counter; one action is one  *)
(* step between two operations on shared state (a channel operation, the   *)
(* critical section under pc.mutex, a filesystem call).                    *)
(***************************************************************************)
EXTENDS Integers, Sequences, FiniteSets, TLC

\* ------------------------------------------------------------------ bounds
\* Largest options.MaxWorkers a run is started with.
MaxW == 2
\* Largest number of items in config.Items.
MaxItems == 2
\* Largest number of discovered tasks.
MaxTasks == 4
\* Capacity of the progress stream (make(chan ProgressUpdate, 100)), scaled.
ProgressCap == 1
\* Capacity of the error stream (make(chan CopyError, 100)), scaled.
ErrorsCap == 1
\* Largest number of I/O failures injected into a run.
MaxFaults == 1
\* Sampling interval of progress updates (current%10 == 0), scaled.
ProgressEvery == 2
\* Largest number of calls of Run on one ParallelCopier.
MaxCalls == 2

\* ----------------------------------------------------------------- state
VARIABLES
  options,         \* pc.options
  cfgItems,        \* the items config.Items may list
  faultBudget,     \* the I/O failures the environment may inject
  pc, ret,         \* position of Run and the value it returned
  nItems,          \* items of config.Items that discoverTasks has taken
  item,            \* loop variable of discoverTasks
  itemResult,      \* itemTasks, err of discoverTasks
  tasks,           \* the discovered tasks
  totalTasks, completedTasks, totalBytes, copiedBytes,
  taskQueue, taskQueueClosed,
  producer, sent,  \* the producer goroutine and the tasks it has sent
  results,
  progress, progressClosed,
  errors, errorsClosed,
  wg, progressWg, errorWg,
  wpc, wtask, werr, wsnap,   \* per worker: position, task, err, counters read
  progressSeen,    \* updates ProgressCallback was called with
  errorsSeen,      \* errors ErrorCallback was called with
  destDir,         \* the destination root Run was called with
  disk,            \* the trees under the destination roots
  peer,            \* a second ParallelCopier, while this one is running
  calls,           \* the calls of Run on this ParallelCopier so far
  repo,            \* Remover.repo: the git repository, its worktrees and branches
  call,            \* a call of Remover.RemoveWorktree: position, locals, result
  dequeued,        \* history: how often each task was received by a worker
  outcome,         \* history: result of processTask on each task
  cause            \* history: the errno behind the failure of each task

vars ==
  <<options, cfgItems, faultBudget, pc, ret, nItems, item, itemResult, tasks,
    totalTasks, completedTasks, totalBytes, copiedBytes,
    taskQueue, taskQueueClosed, producer, sent, results,
    progress, progressClosed, errors, errorsClosed,
    wg, progressWg, errorWg, wpc, wtask, werr, wsnap,
    progressSeen, errorsSeen, destDir, disk, peer, calls, repo, call,
    dequeued, outcome, cause>>

coordVars == <<pc, ret>>
discVars == <<nItems, item, itemResult, tasks>>
counterVars == <<totalTasks, completedTasks, totalBytes, copiedBytes>>
queueVars == <<taskQueue, taskQueueClosed>>
producerVars == <<producer, sent>>
progressVars == <<progress, progressClosed>>
errorVars == <<errors, errorsClosed>>
workerVars == <<wpc, wtask, werr, wsnap>>
handlerVars == <<progressWg, errorWg, progressSeen, errorsSeen>>
histVars == <<dequeued, outcome, cause>>
confVars == <<options, cfgItems, faultBudget, destDir, peer, calls, repo, call>>

Workers == 1..MaxW
TaskIds == 1..MaxTasks
NoSnap == [current |-> 0, total |-> 0, copied |-> 0, totalBytes |-> 0]

\* the destination roots
Roots == {"dst", "dst2"}

\* the tree under the destination root of this run
destFS == disk[destDir]

\* no second ParallelCopier
NoPeer == [pc |-> "none"]

\* no git repository, no call of RemoveWorktree
NoRepo == [worktrees |-> {}]
NoCall == [pc |-> "none"]

\* ------------------------------------------------------- the source tree
\* Relative paths of the source tree the run is started on: a file "a", a
\* directory "d" holding a directory "d/s" holding a file "d/s/y".  "m" is a
\* path that does not exist, "*" a pattern, "[" a malformed pattern.
RelPaths == {"a", "d", "d/s", "d/s/y"}
ItemPaths == {"a", "d", "m", "*", "["}

SrcKind(p) ==
  CASE p = "a" -> "file"
    [] p = "d" -> "dir"
    [] p = "d/s" -> "dir"
    [] p = "d/s/y" -> "file"
    [] OTHER -> "missing"

SrcSize(p) ==
  CASE p = "a" -> 1
    [] p = "d/s/y" -> 2
    [] OTHER -> 0

\* filepath.Dir of a relative path ("." is the root)
Dir(p) ==
  CASE p = "d/s" -> "d"
    [] p = "d/s/y" -> "d/s"
    [] OTHER -> "."

\* AutoCopyItem.IsGlobPattern: the path holds one of * ? [
IsGlobPattern(p) == p \in {"*", "["}

\* filepath.Join(root, rel)
Join(root, rel) == <<root, rel>>

\* filepath.Walk(root, fn) visits root, then its entries in lexical order,
\* depth first; the callback skips root itself.
WalkBelow(p) ==
  CASE p = "d" -> <<"d/s", "d/s/y">>
    [] p = "d/s" -> <<"d/s/y">>
    [] OTHER -> <<>>

\* filepath.Glob(sourceDir/pattern), relative to sourceDir: a pattern without
\* metacharacters matches itself when it exists, "*" matches the entries of
\* the root, "[" is ErrBadPattern.
Glob(pattern) ==
  CASE pattern = "[" -> [matches |-> <<>>, err |-> "glob"]
    [] pattern = "*" -> [matches |-> <<"a", "d">>, err |-> "nil"]
    [] OTHER -> [matches |-> IF SrcKind(pattern) = "missing" THEN <<>> ELSE <<pattern>>,
                 err |-> "nil"]

\* ----------------------------------------------------------------- types
\* AutoCopyItem; Directory is the *bool ("nil" when unset).
AutoCopyItem ==
  [Path : ItemPaths, Directory : {"nil", "true", "false"},
   Recursive : BOOLEAN, AutoDetect : BOOLEAN, UseGlob : BOOLEAN]

NoItem == [Path |-> "none"]

Item(path, directory, recursive, autoDetect, useGlob) ==
  [Path |-> path, Directory |-> directory, Recursive |-> recursive,
   AutoDetect |-> autoDetect, UseGlob |-> useGlob]

\* The item pools of the specifications.  CoreItems: a file, a directory, a
\* missing path declared a file, a missing path with autoDetect.
CoreItems ==
  {Item("a", "false", FALSE, FALSE, FALSE), Item("d", "nil", FALSE, FALSE, FALSE),
   Item("m", "false", FALSE, FALSE, FALSE), Item("m", "nil", FALSE, TRUE, FALSE)}

\* FlagItems: every path under every combination of the directory,
\* autoDetect and useGlob flags.
FlagItems == {it \in AutoCopyItem : ~it.Recursive}

\* DeepItems: a file and a directory copied with everything below it.
DeepItems ==
  {Item("a", "false", FALSE, FALSE, FALSE), Item("d", "true", TRUE, FALSE, FALSE)}

\* ParallelCopyOptions after NewParallelCopier (MaxWorkers > 0, ChecksumType
\* not empty); a callback field is TRUE when the callback is not nil.  Without
\* ShowProgress the progress callback is never used, and is left nil.
ParallelCopyOptions ==
  {o \in [MaxWorkers : 1..MaxW, ShowProgress : BOOLEAN, ContinueOnError : BOOLEAN,
          ProgressCallback : BOOLEAN, ErrorCallback : BOOLEAN,
          VerifyIntegrity : BOOLEAN, ChecksumType : {"sha256", "md5"}] :
     o.ProgressCallback => o.ShowProgress}

\* the options of a run without integrity verification
PlainOptions ==
  {o \in ParallelCopyOptions : ~o.VerifyIntegrity /\ o.ChecksumType = "sha256"}

\* a task whose destination is under one root, whatever Run was called with
CopyTaskOneRoot(rel, isDir, size) ==
  [SourcePath |-> Join("src", rel), DestPath |-> Join("dst", rel),
   IsDir |-> isDir, Size |-> size]

\* discoverSinglePath, lines 264-265 and the tasks it appends
CopyTask(rel, isDir, size) ==
  [SourcePath |-> Join("src", rel), DestPath |-> Join(destDir, rel),
   IsDir |-> isDir, Size |-> size]

\* the relative path item.Path, and the empty path
RelPath(p) == Join("", p)
NoPath == Join("", "")

\* CopyError sent by discoverTasks (SourcePath item.Path, no DestPath) and by
\* a worker
CopyError(sourcePath, destPath, err) ==
  [SourcePath |-> sourcePath, DestPath |-> destPath, Error |-> err]

\* Percentage is kept exact, as the fraction num/den
ProgressUpdate(type, current, total, pctNum, pctDen, copied, totalB) ==
  [Type |-> type, Current |-> current, Total |-> total,
   Percentage |-> <<pctNum, pctDen>>, BytesCopied |-> copied, TotalBytes |-> totalB]

\* ------------------------------------------------------------- discovery
Found(ts) == [tasks |-> ts, err |-> "nil"]
Failed(e) == [tasks |-> <<>>, err |-> e]

RECURSIVE WalkTasks(_)
WalkTasks(ps) ==
  IF ps = <<>> THEN <<>>
  ELSE <<CopyTask(Head(ps), SrcKind(Head(ps)) = "dir",
                  IF SrcKind(Head(ps)) = "dir" THEN 0 ELSE SrcSize(Head(ps)))>>
       \o WalkTasks(Tail(ps))

\* a discovery that skips every missing source
discoverSinglePathLenient(relativePath, it) ==
  IF SrcKind(relativePath) = "missing"
  THEN Found(<<>>)
  ELSE IF SrcKind(relativePath) = "dir"
  THEN IF it.Directory = "false"
       THEN Failed("expected file but found directory")
       ELSE Found(<<CopyTask(relativePath, TRUE, 0)>>
                  \o (IF it.Recursive THEN WalkTasks(WalkBelow(relativePath)) ELSE <<>>))
  ELSE IF it.Directory = "true"
       THEN Failed("expected directory but found file")
       ELSE Found(<<CopyTask(relativePath, FALSE, SrcSize(relativePath))>>)

\* discoverSinglePath: the tasks of one path, or the error
discoverSinglePath(relativePath, it) ==
  IF SrcKind(relativePath) = "missing"
  THEN IF it.AutoDetect THEN Found(<<>>) ELSE Failed("stat")
  ELSE IF SrcKind(relativePath) = "dir"
  THEN IF it.Directory = "false"
       THEN Failed("expected file but found directory")
       ELSE Found(<<CopyTask(relativePath, TRUE, 0)>>
                  \o (IF it.Recursive THEN WalkTasks(WalkBelow(relativePath)) ELSE <<>>))
  ELSE IF it.Directory = "true"
       THEN Failed("expected directory but found file")
       ELSE Found(<<CopyTask(relativePath, FALSE, SrcSize(relativePath))>>)

\* the loop over the matches of a glob item, acc the tasks appended so far
RECURSIVE GlobLoop(_, _, _, _)
GlobLoop(matches, it, acc, continueOnError) ==
  IF matches = <<>> THEN Found(acc)
  ELSE LET r == discoverSinglePath(Head(matches), it)
       IN  IF r.err # "nil"
           THEN IF continueOnError
                THEN GlobLoop(Tail(matches), it, acc, continueOnError)
                ELSE Failed(r.err)
           ELSE GlobLoop(Tail(matches), it, acc \o r.tasks, continueOnError)

discoverItemTasks(it, continueOnError) ==
  IF it.UseGlob
  THEN LET g == Glob(it.Path)
       IN  IF g.err # "nil" THEN Failed("glob pattern failed")
           ELSE GlobLoop(g.matches, it, <<>>, continueOnError)
  ELSE discoverSinglePath(it.Path, it)


\* ------------------------------------------------------------ filesystem
\* os.MkdirAll(destDir/p): p and every ancestor of p become directories
RECURSIVE MkdirAll(_, _)
MkdirAll(fs, p) ==
  IF p = "." THEN fs
  ELSE [MkdirAll(fs, Dir(p)) EXCEPT ![p] = "dir"]

\* os.Mkdir(destDir/p): fails when p exists or its parent does not
MkdirErr(fs, p) ==
  IF p = "." THEN "nil"
  ELSE IF fs[p] # "none" THEN "EEXIST"
  ELSE IF Dir(p) # "." /\ fs[Dir(p)] # "dir" THEN "ENOENT"
  ELSE "nil"

\* the error of os.MkdirAll(destDir/p): none when p is a directory already
\* or can be made with its ancestors, ENOTDIR when something that is not a
\* directory is in the way
RECURSIVE MkdirAllErr(_, _)
MkdirAllErr(fs, p) ==
  IF p = "." THEN "nil"
  ELSE IF fs[p] = "dir" THEN "nil"
  ELSE IF fs[p] # "none" THEN "ENOTDIR"
  ELSE MkdirAllErr(fs, Dir(p))

\* the error of os.Create(destDir/p): an existing file is truncated, a
\* directory cannot be opened for writing, the parent must be a directory
CreateErr(fs, p) ==
  IF fs[p] = "dir" THEN "EISDIR"
  ELSE IF Dir(p) # "." /\ fs[Dir(p)] # "dir" THEN "ENOENT"
  ELSE "nil"

\* The points at which the environment can make processTask fail on a task
\* (errno EIO): os.MkdirAll, after it os.Open / os.Create, after them
\* io.CopyBuffer; and, in a copy with verification, the point at which it can
\* make the two digests differ: both are taken of the bytes of the copy
\* buffer, the source digest after the read and the destination digest after
\* the write to the file, and differ when the buffer changed in between.
Outcomes(task) ==
  IF task.IsDir THEN {"ok", "mkdir"}
  ELSE {"ok", "mkdir", "open", "copy"}
         \cup (IF options.VerifyIntegrity /\ options.ChecksumType = "sha256"
               THEN {"verify"} ELSE {})

\* a verification that removes the file whose digests differ
AfterMismatchRemoved(fs, rel) == [fs EXCEPT ![rel] = "none"]

\* copyWithVerification, lines 476-478: the error is returned, the file,
\* written in full, stays where it is
AfterMismatch(fs, rel) == [fs EXCEPT ![rel] = "unverified"]

\* processTask / copyFile / copyWithVerification: the destination tree, the
\* error and its cause, of one task whose first call made to fail is o
\* ("ok": none is)
processTask(fs, task, o) ==
  LET rel == task.DestPath[2]
      dir == IF task.IsDir THEN rel ELSE Dir(rel)
      made == MkdirAll(fs, dir)
  IN  IF o = "mkdir" \/ MkdirAllErr(fs, dir) # "nil"
      THEN [fs |-> fs,
            err |-> IF task.IsDir THEN "mkdir"
                    ELSE "failed to create destination directory",
            errno |-> IF o = "mkdir" THEN "EIO" ELSE MkdirAllErr(fs, dir)]
      ELSE IF task.IsDir
      THEN [fs |-> made, err |-> "nil", errno |-> "none"]
      ELSE IF o = "open" \/ CreateErr(made, rel) # "nil"
      THEN [fs |-> made, err |-> "failed to open or create file",
            errno |-> IF o = "open" THEN "EIO" ELSE CreateErr(made, rel)]
      ELSE IF options.VerifyIntegrity /\ options.ChecksumType # "sha256"
      THEN [fs |-> [made EXCEPT ![rel] = "partial"],
            err |-> "unsupported checksum type", errno |-> "checksum type"]
      ELSE IF o = "copy"
      THEN [fs |-> [made EXCEPT ![rel] = "partial"], err |-> "failed to copy file",
            errno |-> "EIO"]
      ELSE IF o = "verify"
      THEN [fs |-> AfterMismatch(made, rel),
            err |-> "integrity verification failed", errno |-> "mismatch"]
      ELSE [fs |-> [made EXCEPT ![rel] = "file"], err |-> "nil", errno |-> "none"]

\* NewParallelCopier: the zero ParallelCopier with its options, and the
\* destination root of its Run
InitRun ==
  /\ pc = "entry" /\ ret = "none"
  /\ nItems = 0 /\ item = NoItem /\ itemResult = Found(<<>>) /\ tasks = <<>>
  /\ totalTasks = 0 /\ completedTasks = 0 /\ totalBytes = 0 /\ copiedBytes = 0
  /\ taskQueue = <<>> /\ taskQueueClosed = FALSE
  /\ producer = "idle" /\ sent = 0
  /\ results = <<>>
  /\ progress = <<>> /\ progressClosed = FALSE
  /\ errors = <<>> /\ errorsClosed = FALSE
  /\ wg = 0 /\ progressWg = 0 /\ errorWg = 0
  /\ wpc = [w \in Workers |-> "unused"]
  /\ wtask = [w \in Workers |-> 0]
  /\ werr = [w \in Workers |-> "nil"]
  /\ wsnap = [w \in Workers |-> NoSnap]
  /\ progressSeen = <<>> /\ errorsSeen = <<>>
  /\ destDir = "dst"
  /\ disk = [r \in Roots |-> [p \in RelPaths |-> "none"]]
  /\ dequeued = [t \in TaskIds |-> 0]
  /\ outcome = [t \in TaskIds |-> "none"]
  /\ cause = [t \in TaskIds |-> "none"]
  /\ calls = 1

\* one ParallelCopier, alone
InitState == InitRun /\ peer = NoPeer /\ repo = NoRepo /\ call = NoCall

\* NewParallelCopier: the zero ParallelCopier with the options o, to be run
\* on the destination root dir
Fresh(o, dir) ==
  [options |-> o, destDir |-> dir, pc |-> "entry", ret |-> "none",
   nItems |-> 0, item |-> NoItem, itemResult |-> Found(<<>>), tasks |-> <<>>,
   totalTasks |-> 0, completedTasks |-> 0, totalBytes |-> 0, copiedBytes |-> 0,
   taskQueue |-> <<>>, taskQueueClosed |-> FALSE, producer |-> "idle", sent |-> 0,
   results |-> <<>>, progress |-> <<>>, progressClosed |-> FALSE,
   errors |-> <<>>, errorsClosed |-> FALSE, wg |-> 0, progressWg |-> 0, errorWg |-> 0,
   wpc |-> [w \in Workers |-> "unused"], wtask |-> [w \in Workers |-> 0],
   werr |-> [w \in Workers |-> "nil"], wsnap |-> [w \in Workers |-> NoSnap],
   progressSeen |-> <<>>, errorsSeen |-> <<>>,
   dequeued |-> [t \in TaskIds |-> 0], outcome |-> [t \in TaskIds |-> "none"],
   cause |-> [t \in TaskIds |-> "none"]]

\* the ParallelCopier that is running, as a record
This ==
  [options |-> options, destDir |-> destDir, pc |-> pc, ret |-> ret,
   nItems |-> nItems, item |-> item, itemResult |-> itemResult, tasks |-> tasks,
   totalTasks |-> totalTasks, completedTasks |-> completedTasks,
   totalBytes |-> totalBytes, copiedBytes |-> copiedBytes,
   taskQueue |-> taskQueue, taskQueueClosed |-> taskQueueClosed,
   producer |-> producer, sent |-> sent,
   results |-> results, progress |-> progress, progressClosed |-> progressClosed,
   errors |-> errors, errorsClosed |-> errorsClosed,
   wg |-> wg, progressWg |-> progressWg, errorWg |-> errorWg,
   wpc |-> wpc, wtask |-> wtask, werr |-> werr, wsnap |-> wsnap,
   progressSeen |-> progressSeen, errorsSeen |-> errorsSeen,
   dequeued |-> dequeued, outcome |-> outcome, cause |-> cause]

\* two ParallelCopiers made with the same options (one worker, no callback,
\* ContinueOnError false) and run concurrently on the same source and on two
\* destination roots; one file listed any number of times; at most MaxFaults
\* failures in each run
InitPair ==
  /\ options \in {o \in PlainOptions :
                    /\ o.MaxWorkers = 1 /\ ~o.ContinueOnError
                    /\ ~o.ShowProgress /\ ~o.ProgressCallback /\ ~o.ErrorCallback}
  /\ cfgItems = {Item("a", "false", FALSE, FALSE, FALSE)}
  /\ faultBudget = MaxFaults
  /\ InitRun
  /\ peer = Fresh(options, "dst2")
  /\ repo = NoRepo /\ call = NoCall

\* every option, the core items, at most MaxFaults failures
Init ==
  /\ options \in PlainOptions
  /\ cfgItems = CoreItems
  /\ faultBudget = MaxFaults
  /\ InitState

\* progress and errors observed, the deep items, at most MaxFaults failures
InitDeep ==
  /\ options \in {o \in PlainOptions :
                    o.ShowProgress /\ o.ProgressCallback /\ o.ErrorCallback}
  /\ cfgItems = DeepItems
  /\ faultBudget = MaxFaults
  /\ InitState

\* one worker, the items of every flag combination, at most MaxFaults failures
InitItems ==
  /\ options \in {o \in PlainOptions :
                    /\ o.MaxWorkers = 1
                    /\ o.ShowProgress /\ o.ProgressCallback /\ o.ErrorCallback}
  /\ cfgItems = FlagItems
  /\ faultBudget = MaxFaults
  /\ InitState

\* the options of the runs whose streams are observed by both callbacks or by
\* none, and by none when more than two workers run
ObservedOrNot ==
  {o \in PlainOptions :
     /\ o.ShowProgress = o.ProgressCallback
     /\ o.ShowProgress = o.ErrorCallback
     /\ o.MaxWorkers > 2 => ~o.ShowProgress}

\* the core items, at most MaxFaults failures
InitPool ==
  /\ options \in ObservedOrNot
  /\ cfgItems = CoreItems
  /\ faultBudget = MaxFaults
  /\ InitState

\* one file listed any number of times, at most MaxFaults failures
InitLive ==
  /\ options \in ObservedOrNot
  /\ cfgItems = {Item("a", "false", FALSE, FALSE, FALSE)}
  /\ faultBudget = MaxFaults
  /\ InitState

\* the deep items; the streams are observed by callbacks in the runs of one
\* worker and unobserved in the runs of several; at most MaxFaults failures
InitTree ==
  /\ options \in {o \in PlainOptions :
                    /\ o.ShowProgress = o.ProgressCallback
                    /\ o.ShowProgress = o.ErrorCallback
                    /\ o.ShowProgress = (o.MaxWorkers = 1)}
  /\ cfgItems = DeepItems
  /\ faultBudget = MaxFaults
  /\ InitState

\* copies with integrity verification of a file and a directory; the streams
\* are observed by callbacks in the runs of one worker and unobserved in the
\* runs of several; at most MaxFaults failures made by the environment
InitVerify ==
  /\ options \in {o \in ParallelCopyOptions :
                    /\ o.VerifyIntegrity
                    /\ o.ShowProgress = o.ProgressCallback
                    /\ o.ShowProgress = o.ErrorCallback
                    /\ o.ShowProgress = (o.MaxWorkers = 1)}
  /\ cfgItems = {Item("a", "false", FALSE, FALSE, FALSE),
                 Item("d", "nil", FALSE, FALSE, FALSE)}
  /\ faultBudget = MaxFaults
  /\ InitState

\* two workers, progress and errors observed, the deep items, at most
\* MaxFaults failures
InitSample ==
  /\ options \in {o \in PlainOptions :
                    /\ o.MaxWorkers = 2
                    /\ o.ShowProgress /\ o.ProgressCallback /\ o.ErrorCallback}
  /\ cfgItems = DeepItems
  /\ faultBudget = MaxFaults
  /\ InitState

\* ------------------------------------------------------ the two streams
\* sendProgressUpdate: the stream after a non-blocking send of update
sendProgressUpdate(update) ==
  IF options.ShowProgress /\ Len(progress) < ProgressCap
  THEN Append(progress, update)
  ELSE progress

\* sendError: the stream after a non-blocking send of e
sendError(e) ==
  IF Len(errors) < ErrorsCap THEN Append(errors, e) ELSE errors

\* a sum that leaves the sizes out
SumSizesNone(ts) == 0

\* Run, lines 143-145: the sizes of the tasks, summed
RECURSIVE SumSizes(_)
SumSizes(ts) == IF ts = <<>> THEN 0 ELSE Head(ts).Size + SumSizes(Tail(ts))

\* ------------------------------------------------------------------ Run
\* Run, lines 109-129: the channels are made, the handlers started
RunInit ==
  /\ pc = "entry"
  /\ pc' = "discover"
  /\ progressWg' = IF options.ShowProgress /\ options.ProgressCallback THEN 1 ELSE 0
  /\ errorWg' = IF options.ErrorCallback THEN 1 ELSE 0
  /\ UNCHANGED <<ret, discVars, counterVars, queueVars, producerVars, results,
                 progressVars, errorVars, wg, workerVars, progressSeen, errorsSeen,
                 disk, histVars, confVars>>

\* a loop that goes on to the next item after an error, whatever the policy,
\* and reports nothing
DiscoverItemIgnoringError(it) ==
  /\ pc = "discover"
  /\ nItems < MaxItems
  /\ LET r == discoverItemTasks(it, options.ContinueOnError)
     IN  /\ Len(tasks) + Len(r.tasks) <= MaxTasks
         /\ item' = it
         /\ itemResult' = r
         /\ nItems' = nItems + 1
         /\ tasks' = tasks \o r.tasks
  /\ UNCHANGED <<pc, ret, counterVars, queueVars, producerVars, results, progressVars,
                 errorVars, wg, workerVars, handlerVars, disk, histVars, confVars>>

\* one iteration of the loop of discoverTasks, on the item it
DiscoverItem(it) ==
  /\ pc = "discover"
  /\ nItems < MaxItems
  /\ LET r == discoverItemTasks(it, options.ContinueOnError)
     IN  /\ Len(tasks) + Len(r.tasks) <= MaxTasks
         /\ item' = it
         /\ itemResult' = r
         /\ nItems' = nItems + 1
         /\ IF r.err # "nil"
            THEN IF options.ContinueOnError
                 THEN /\ errors' = sendError(CopyError(RelPath(it.Path), NoPath, r.err))
                      /\ UNCHANGED <<pc, ret, tasks>>
                 ELSE /\ pc' = "returned"
                      /\ ret' = "failed to discover copy tasks"
                      /\ tasks' = <<>>
                      /\ UNCHANGED errors
            ELSE /\ tasks' = tasks \o r.tasks
                 /\ UNCHANGED <<pc, ret, errors>>
  /\ UNCHANGED <<counterVars, queueVars, producerVars, results, progressVars,
                 errorsClosed, wg, workerVars, handlerVars, disk, histVars, confVars>>

\* a Run without the test for an empty task list
DiscoverDoneNoCheck ==
  /\ pc = "discover"
  /\ item' = NoItem
  /\ itemResult' = Found(<<>>)
  /\ totalTasks' = Len(tasks)
  /\ pc' = "sendStart"
  /\ totalBytes' = totalBytes + SumSizes(tasks)
  /\ UNCHANGED <<ret, nItems, tasks, completedTasks, copiedBytes, queueVars,
                 producerVars, results, progressVars, errorVars, wg, workerVars,
                 handlerVars, disk, histVars, confVars>>

\* discoverTasks returns the tasks; Run, lines 137-145
DiscoverDone ==
  /\ pc = "discover"
  /\ item' = NoItem
  /\ itemResult' = Found(<<>>)
  /\ totalTasks' = Len(tasks)
  /\ IF Len(tasks) = 0
     THEN /\ pc' = "returned" /\ ret' = "nil"
          /\ UNCHANGED totalBytes
     ELSE /\ pc' = "sendStart"
          /\ totalBytes' = totalBytes + SumSizes(tasks)
          /\ UNCHANGED ret
  /\ UNCHANGED <<nItems, tasks, completedTasks, copiedBytes, queueVars, producerVars,
                 results, progressVars, errorVars, wg, workerVars, handlerVars,
                 disk, histVars, confVars>>

\* Run, lines 147-154
SendStart ==
  /\ pc = "sendStart"
  /\ pc' = "startWorkers"
  /\ progress' = IF options.ShowProgress
                 THEN sendProgressUpdate(ProgressUpdate("start", 0, totalTasks, 0, 1, 0, 0))
                 ELSE progress
  /\ UNCHANGED <<ret, discVars, counterVars, queueVars, producerVars, results,
                 progressClosed, errorVars, wg, workerVars, handlerVars, disk,
                 histVars, confVars>>

\* Run, lines 156-168: the workers and the producer are started
StartWorkers ==
  /\ pc = "startWorkers"
  /\ pc' = "wait"
  /\ wg' = wg + options.MaxWorkers
  /\ wpc' = [w \in Workers |-> IF w <= options.MaxWorkers THEN "recv" ELSE "unused"]
  /\ producer' = "sending"
  /\ UNCHANGED <<ret, discVars, counterVars, queueVars, sent, results, progressVars,
                 errorVars, wtask, werr, wsnap, handlerVars, disk, histVars, confVars>>

\* a Run that does not wait for the workers
WaitWorkersNoWait ==
  /\ pc = "wait"
  /\ pc' = "sendComplete"
  /\ UNCHANGED <<ret, discVars, counterVars, queueVars, producerVars, results,
                 progressVars, errorVars, wg, workerVars, handlerVars, disk,
                 histVars, confVars>>

\* Run, line 171: pc.wg.Wait()
WaitWorkers ==
  /\ pc = "wait"
  /\ wg = 0
  /\ pc' = "sendComplete"
  /\ UNCHANGED <<ret, discVars, counterVars, queueVars, producerVars, results,
                 progressVars, errorVars, wg, workerVars, handlerVars, disk,
                 histVars, confVars>>

\* Run, lines 173-185
SendComplete ==
  /\ pc = "sendComplete"
  /\ pc' = "close"
  /\ progress' = IF options.ShowProgress
                 THEN sendProgressUpdate(ProgressUpdate("complete", completedTasks,
                        totalTasks, 100, 1, copiedBytes, totalBytes))
                 ELSE progress
  /\ UNCHANGED <<ret, discVars, counterVars, queueVars, producerVars, results,
                 progressClosed, errorVars, wg, workerVars, handlerVars, disk,
                 histVars, confVars>>

\* Run, lines 188-189
CloseChannels ==
  /\ pc = "close"
  /\ pc' = "waitHandlers"
  /\ progressClosed' = TRUE
  /\ errorsClosed' = TRUE
  /\ UNCHANGED <<ret, discVars, counterVars, queueVars, producerVars, results,
                 progress, errors, wg, workerVars, handlerVars, disk, histVars,
                 confVars>>

\* Run, lines 192-195
WaitHandlers ==
  /\ pc = "waitHandlers"
  /\ progressWg = 0
  /\ errorWg = 0
  /\ pc' = "returned"
  /\ ret' = "nil"
  /\ UNCHANGED <<discVars, counterVars, queueVars, producerVars, results,
                 progressVars, errorVars, wg, workerVars, handlerVars, disk,
                 histVars, confVars>>

\* Run is called again on the ParallelCopier after it has returned.  Lines
\* 109-115: the four channels are made anew; what goroutines of the earlier
\* call are left hold the old channels.  The fields totalTasks,
\* completedTasks, totalBytes, copiedBytes are not assigned here.  The
\* histories are those of the call.
RunAgain ==
  /\ pc = "returned"
  /\ calls < MaxCalls
  /\ calls' = calls + 1
  /\ pc' = "entry" /\ ret' = "none"
  /\ nItems' = 0 /\ item' = NoItem /\ itemResult' = Found(<<>>) /\ tasks' = <<>>
  /\ taskQueue' = <<>> /\ taskQueueClosed' = FALSE
  /\ producer' = "idle" /\ sent' = 0
  /\ results' = <<>>
  /\ progress' = <<>> /\ progressClosed' = FALSE
  /\ errors' = <<>> /\ errorsClosed' = FALSE
  /\ progressWg' = 0 /\ errorWg' = 0
  /\ wpc' = [w \in Workers |-> "unused"]
  /\ wtask' = [w \in Workers |-> 0]
  /\ werr' = [w \in Workers |-> "nil"]
  /\ wsnap' = [w \in Workers |-> NoSnap]
  /\ progressSeen' = <<>> /\ errorsSeen' = <<>>
  /\ dequeued' = [t \in TaskIds |-> 0]
  /\ outcome' = [t \in TaskIds |-> "none"]
  /\ cause' = [t \in TaskIds |-> "none"]
  /\ UNCHANGED <<counterVars, wg, disk, options, cfgItems, faultBudget, destDir,
                 peer, repo, call>>

\* ------------------------------------------------------------- producer
\* the goroutine of Run, lines 163-168
ProducerSend ==
  /\ producer = "sending"
  /\ sent < Len(tasks)
  /\ Len(taskQueue) < 2 * options.MaxWorkers
  /\ taskQueue' = Append(taskQueue, sent + 1)
  /\ sent' = sent + 1
  /\ UNCHANGED <<coordVars, discVars, counterVars, taskQueueClosed, producer, results,
                 progressVars, errorVars, wg, workerVars, handlerVars, disk,
                 histVars, confVars>>

\* a producer that ends without closing the queue
ProducerCloseForgotten ==
  /\ producer = "sending"
  /\ sent = Len(tasks)
  /\ producer' = "done"
  /\ UNCHANGED <<coordVars, discVars, counterVars, queueVars, sent, results,
                 progressVars, errorVars, wg, workerVars, handlerVars, disk,
                 histVars, confVars>>

\* the deferred close(pc.taskQueue), after the last send
ProducerClose ==
  /\ producer = "sending"
  /\ sent = Len(tasks)
  /\ producer' = "done"
  /\ taskQueueClosed' = TRUE
  /\ UNCHANGED <<coordVars, discVars, counterVars, taskQueue, sent, results,
                 progressVars, errorVars, wg, workerVars, handlerVars, disk,
                 histVars, confVars>>

\* --------------------------------------------------------------- worker
\* a receive that leaves the task in the queue
ReceivePeek(q) == [task |-> Head(q), rest |-> q]

\* task := <-pc.taskQueue on a queue that holds a task
Receive(q) == [task |-> Head(q), rest |-> Tail(q)]

\* a loop that ends as soon as the queue is empty
QueueEmpty == taskQueue = <<>>

\* for task := range pc.taskQueue ends: the queue is closed and drained
QueueDrained == taskQueue = <<>> /\ taskQueueClosed

\* a worker that stops at every failure
AfterErrorStop == "result"

\* a worker that goes on after every failure
AfterErrorContinue == "update"

\* worker, lines 362-365: where a worker goes after it has sent an error
AfterError == IF options.ContinueOnError THEN "update" ELSE "result"

\* for task := range pc.taskQueue: a task is received
WorkerRecv(w) ==
  /\ wpc[w] = "recv"
  /\ taskQueue # <<>>
  /\ wtask' = [wtask EXCEPT ![w] = Receive(taskQueue).task]
  /\ taskQueue' = Receive(taskQueue).rest
  /\ wpc' = [wpc EXCEPT ![w] = "process"]
  /\ dequeued' = [dequeued EXCEPT ![Receive(taskQueue).task] = @ + 1]
  /\ UNCHANGED <<coordVars, discVars, counterVars, taskQueueClosed, producerVars,
                 results, progressVars, errorVars, wg, werr, wsnap, handlerVars,
                 disk, outcome, cause, confVars>>

\* for task := range pc.taskQueue: the queue is closed and empty
WorkerExit(w) ==
  /\ wpc[w] = "recv"
  /\ QueueDrained
  /\ wpc' = [wpc EXCEPT ![w] = "exited"]
  /\ wg' = wg - 1
  /\ UNCHANGED <<coordVars, discVars, counterVars, queueVars, producerVars, results,
                 progressVars, errorVars, wtask, werr, wsnap, handlerVars, disk,
                 histVars, confVars>>

Faults == Cardinality({t \in TaskIds : outcome[t] = "failed"})

\* worker, lines 353-362: err := pc.processTask(task); a failure is sent to
\* the error stream and the policy decides whether the worker goes on
WorkerProcess(w) ==
  /\ wpc[w] = "process"
  /\ \E o \in Outcomes(tasks[wtask[w]]) :
       /\ o # "ok" => Faults < faultBudget
       /\ LET root == tasks[wtask[w]].DestPath[1]
              r == processTask(disk[root], tasks[wtask[w]], o)
          IN  /\ disk' = [disk EXCEPT ![root] = r.fs]
              /\ werr' = [werr EXCEPT ![w] = r.err]
              /\ outcome' = [outcome EXCEPT ![wtask[w]] =
                                IF r.err = "nil" THEN "ok" ELSE "failed"]
              /\ cause' = [cause EXCEPT ![wtask[w]] = r.errno]
              /\ errors' = IF r.err = "nil" THEN errors
                           ELSE sendError(CopyError(tasks[wtask[w]].SourcePath,
                                                    tasks[wtask[w]].DestPath, r.err))
              /\ wpc' = [wpc EXCEPT ![w] =
                            IF r.err = "nil" THEN "update" ELSE AfterError]
  /\ UNCHANGED <<coordVars, discVars, counterVars, queueVars, producerVars, results,
                 progressVars, errorsClosed, wg, wtask, wsnap, handlerVars, dequeued,
                 confVars>>

\* worker, lines 363-364: pc.results <- err; return (and the deferred Done)
WorkerResult(w) ==
  /\ wpc[w] = "result"
  /\ Len(results) < options.MaxWorkers
  /\ results' = Append(results, werr[w])
  /\ wpc' = [wpc EXCEPT ![w] = "exited"]
  /\ wg' = wg - 1
  /\ UNCHANGED <<coordVars, discVars, counterVars, queueVars, producerVars,
                 progressVars, errorVars, wtask, werr, wsnap, handlerVars, disk,
                 histVars, confVars>>

\* a worker that sends an update after every task
SampledAlways(current) == options.ShowProgress

\* worker, line 379: pc.options.ShowProgress && current%10 == 0
Sampled(current) == options.ShowProgress /\ current % ProgressEvery = 0

\* increments without pc.mutex: of two workers that are at the increment
\* together, the one that writes first has its update overwritten
WorkerUpdateUnlocked(w) ==
  /\ wpc[w] = "update"
  /\ completedTasks' = IF \E v \in Workers \ {w} : wpc[v] = "update"
                       THEN completedTasks ELSE completedTasks + 1
  /\ copiedBytes' = IF \E v \in Workers \ {w} : wpc[v] = "update"
                    THEN copiedBytes ELSE copiedBytes + tasks[wtask[w]].Size
  /\ wsnap' = [wsnap EXCEPT ![w] =
                 IF Sampled(completedTasks')
                 THEN [current |-> completedTasks', total |-> totalTasks,
                       copied |-> copiedBytes', totalBytes |-> totalBytes]
                 ELSE NoSnap]
  /\ wpc' = [wpc EXCEPT ![w] =
               IF Sampled(completedTasks')
               THEN "sendProgress" ELSE "recv"]
  /\ wtask' = [wtask EXCEPT ![w] = 0]
  /\ werr' = [werr EXCEPT ![w] = "nil"]
  /\ UNCHANGED <<coordVars, discVars, totalTasks, totalBytes, queueVars, producerVars,
                 results, progressVars, errorVars, wg, handlerVars, disk, histVars,
                 confVars>>

\* worker, lines 369-379: the counters are updated and read under pc.mutex
WorkerUpdate(w) ==
  /\ wpc[w] = "update"
  /\ completedTasks' = completedTasks + 1
  /\ copiedBytes' = copiedBytes + tasks[wtask[w]].Size
  /\ wsnap' = [wsnap EXCEPT ![w] =
                 IF Sampled(completedTasks')
                 THEN [current |-> completedTasks', total |-> totalTasks,
                       copied |-> copiedBytes', totalBytes |-> totalBytes]
                 ELSE NoSnap]
  /\ wpc' = [wpc EXCEPT ![w] =
               IF Sampled(completedTasks')
               THEN "sendProgress" ELSE "recv"]
  /\ wtask' = [wtask EXCEPT ![w] = 0]
  /\ werr' = [werr EXCEPT ![w] = "nil"]
  /\ UNCHANGED <<coordVars, discVars, totalTasks, totalBytes, queueVars, producerVars,
                 results, progressVars, errorVars, wg, handlerVars, disk, histVars,
                 confVars>>

\* worker, lines 380-398
WorkerSendProgress(w) ==
  /\ wpc[w] = "sendProgress"
  /\ progress' = sendProgressUpdate(ProgressUpdate("progress", wsnap[w].current,
                   wsnap[w].total, 100 * wsnap[w].current, wsnap[w].total,
                   wsnap[w].copied, wsnap[w].totalBytes))
  /\ wpc' = [wpc EXCEPT ![w] = "recv"]
  /\ wsnap' = [wsnap EXCEPT ![w] = NoSnap]
  /\ UNCHANGED <<coordVars, discVars, counterVars, queueVars, producerVars, results,
                 progressClosed, errorVars, wg, wtask, werr, handlerVars, disk,
                 histVars, confVars>>

\* ------------------------------------------------------------- handlers
\* handleProgress: one update is received and passed to ProgressCallback
HandleProgress ==
  /\ progressWg = 1
  /\ progress # <<>>
  /\ progressSeen' = Append(progressSeen, Head(progress))
  /\ progress' = Tail(progress)
  /\ UNCHANGED <<coordVars, discVars, counterVars, queueVars, producerVars, results,
                 progressClosed, errorVars, wg, workerVars, progressWg, errorWg,
                 errorsSeen, disk, histVars, confVars>>

\* handleProgress: the stream is closed and drained
HandleProgressDone ==
  /\ progressWg = 1
  /\ progress = <<>>
  /\ progressClosed
  /\ progressWg' = 0
  /\ UNCHANGED <<coordVars, discVars, counterVars, queueVars, producerVars, results,
                 progressVars, errorVars, wg, workerVars, errorWg, progressSeen,
                 errorsSeen, disk, histVars, confVars>>

\* handleErrors: one error is received and passed to ErrorCallback
HandleErrors ==
  /\ errorWg = 1
  /\ errors # <<>>
  /\ errorsSeen' = Append(errorsSeen, Head(errors))
  /\ errors' = Tail(errors)
  /\ UNCHANGED <<coordVars, discVars, counterVars, queueVars, producerVars, results,
                 progressVars, errorsClosed, wg, workerVars, progressWg, errorWg,
                 progressSeen, disk, histVars, confVars>>

\* handleErrors: the stream is closed and drained
HandleErrorsDone ==
  /\ errorWg = 1
  /\ errors = <<>>
  /\ errorsClosed
  /\ errorWg' = 0
  /\ UNCHANGED <<coordVars, discVars, counterVars, queueVars, producerVars, results,
                 progressVars, errorVars, wg, workerVars, progressWg, progressSeen,
                 errorsSeen, disk, histVars, confVars>>

\* --------------------------------------------------------- specification
Next ==
  \/ RunInit
  \/ \E it \in cfgItems : DiscoverItem(it)
  \/ DiscoverDone
  \/ SendStart
  \/ StartWorkers
  \/ WaitWorkers
  \/ SendComplete
  \/ CloseChannels
  \/ WaitHandlers
  \/ ProducerSend
  \/ ProducerClose
  \/ \E w \in Workers : WorkerRecv(w)
  \/ \E w \in Workers : WorkerExit(w)
  \/ \E w \in Workers : WorkerProcess(w)
  \/ \E w \in Workers : WorkerResult(w)
  \/ \E w \in Workers : WorkerUpdate(w)
  \/ \E w \in Workers : WorkerSendProgress(w)
  \/ HandleProgress
  \/ HandleProgressDone
  \/ HandleErrors
  \/ HandleErrorsDone

Spec == Init /\ [][Next]_vars
SpecDeep == InitDeep /\ [][Next]_vars
SpecItems == InitItems /\ [][Next]_vars
SpecTree == InitTree /\ [][Next]_vars
SpecPool == InitPool /\ [][Next]_vars
SpecSample == InitSample /\ [][Next]_vars

\* the steps of a ParallelCopier on which Run is called more than once
NextAgain == Next \/ RunAgain

SpecAgain == InitLive /\ [][NextAgain]_vars

\* The scheduler turns from the goroutines of one ParallelCopier to those of
\* the other: the one that was running is set aside as it is, the other goes
\* on from where it was.  The trees on disk are those of both.
Switch ==
  /\ peer # NoPeer
  /\ peer' = This
  /\ options' = peer.options /\ destDir' = peer.destDir
  /\ pc' = peer.pc /\ ret' = peer.ret
  /\ nItems' = peer.nItems /\ item' = peer.item /\ itemResult' = peer.itemResult
  /\ tasks' = peer.tasks
  /\ totalTasks' = peer.totalTasks /\ completedTasks' = peer.completedTasks
  /\ totalBytes' = peer.totalBytes /\ copiedBytes' = peer.copiedBytes
  /\ taskQueue' = peer.taskQueue /\ taskQueueClosed' = peer.taskQueueClosed
  /\ producer' = peer.producer /\ sent' = peer.sent
  /\ results' = peer.results
  /\ progress' = peer.progress /\ progressClosed' = peer.progressClosed
  /\ errors' = peer.errors /\ errorsClosed' = peer.errorsClosed
  /\ wg' = peer.wg /\ progressWg' = peer.progressWg /\ errorWg' = peer.errorWg
  /\ wpc' = peer.wpc /\ wtask' = peer.wtask /\ werr' = peer.werr /\ wsnap' = peer.wsnap
  /\ progressSeen' = peer.progressSeen /\ errorsSeen' = peer.errorsSeen
  /\ dequeued' = peer.dequeued /\ outcome' = peer.outcome /\ cause' = peer.cause
  /\ UNCHANGED <<cfgItems, faultBudget, disk, calls, repo, call>>

\* The steps of two concurrent runs without callbacks: no handler goroutine
\* is started (Run, lines 119 and 126) and no progress update is sent.
NextPair ==
  \/ Switch
  \/ RunInit
  \/ \E it \in cfgItems : DiscoverItem(it)
  \/ DiscoverDone
  \/ SendStart
  \/ StartWorkers
  \/ WaitWorkers
  \/ SendComplete
  \/ CloseChannels
  \/ WaitHandlers
  \/ ProducerSend
  \/ ProducerClose
  \/ \E w \in Workers : WorkerRecv(w)
  \/ \E w \in Workers : WorkerExit(w)
  \/ \E w \in Workers : WorkerProcess(w)
  \/ \E w \in Workers : WorkerResult(w)
  \/ \E w \in Workers : WorkerUpdate(w)

SpecPair == InitPair /\ [][NextPair]_vars
SpecVerify == InitVerify /\ [][Next]_vars

\* The goroutines of a run, each scheduled fairly: Run itself, the producer,
\* each worker, the two handlers.
Coordinator ==
  \/ RunInit
  \/ \E it \in cfgItems : DiscoverItem(it)
  \/ DiscoverDone
  \/ SendStart
  \/ StartWorkers
  \/ WaitWorkers
  \/ SendComplete
  \/ CloseChannels
  \/ WaitHandlers

Producer == ProducerSend \/ ProducerClose

worker(w) ==
  \/ WorkerRecv(w)
  \/ WorkerExit(w)
  \/ WorkerProcess(w)
  \/ WorkerResult(w)
  \/ WorkerUpdate(w)
  \/ WorkerSendProgress(w)

handleProgress == HandleProgress \/ HandleProgressDone

handleErrors == HandleErrors \/ HandleErrorsDone

Fairness ==
  /\ WF_vars(Coordinator)
  /\ WF_vars(Producer)
  /\ \A w \in Workers : WF_vars(worker(w))
  /\ WF_vars(handleProgress)
  /\ WF_vars(handleErrors)

SpecLive == InitLive /\ [][Next]_vars /\ Fairness


\* =================================================================
\* Remover.RemoveWorktree (internal/worktree) on a git repository
\* =================================================================

\* every variable of the ParallelCopier
copierVars ==
  <<coordVars, discVars, counterVars, queueVars, producerVars, results,
    progressVars, errorVars, wg, workerVars, handlerVars, disk, histVars,
    options, cfgItems, faultBudget, destDir, peer, calls>>

\* ------------------------------------------------------- the repository
\* Branch names; none has a character that SanitizeBranchName changes.  The
\* main repository is on "main".
Branches == {"main", "feat", "fix"}

\* r.root, the directory of the main repository
Root == <<"root">>

\* GenerateWorktreePath: the directory <parent>/<project>-<branch>
GenerateWorktreePath(branchName) == <<"project", branchName>>

\* a directory that does not follow the naming convention
Elsewhere == <<"elsewhere">>

WorktreePaths == {GenerateWorktreePath(b) : b \in Branches \ {"main"}} \cup {Elsewhere}

\* IsHatcherWorktree: the base name starts with <project>-
IsHatcherWorktree(worktreePath) == worktreePath[1] = "project"

\* Finder.extractBranchFromPath: the part after <project>-
extractBranchFromPath(worktreePath) ==
  IF IsHatcherWorktree(worktreePath) THEN worktreePath[2] ELSE ""

\* git.Worktree (Head and Status are not read by the Remover)
Worktree == [Path : WorktreePaths, Branch : Branches \ {"main"}]
MainWorktree == [Path |-> Root, Branch |-> "main"]

\* The repository as git keeps it: the main worktree on "main", linked
\* worktrees at different paths on different local branches, the local
\* branches, the branches of origin, and the worktree directories that hold
\* something else than .git entries.
Repositories ==
  {[worktrees |-> {MainWorktree} \cup y.w, local |-> y.l, remote |-> y.r,
    files |-> y.f] :
     y \in {x \in [w : SUBSET Worktree, l : SUBSET Branches,
                   r : SUBSET (Branches \ {"main"}), f : SUBSET WorktreePaths] :
              /\ \A s, t \in x.w : (s.Path = t.Path \/ s.Branch = t.Branch) => s = t
              /\ "main" \in x.l
              /\ \A s \in x.w : s.Branch \in x.l
              /\ x.f \subseteq {s.Path : s \in x.w}}}

\* GetCurrentBranch: the branch checked out at r.root
GetCurrentBranch(rp) == (CHOOSE wt \in rp.worktrees : wt.Path = Root).Branch

\* Finder.FindWorktree: by branch, then by the expected path, then by the
\* naming convention
FindWorktree(rp, branchName) ==
  IF \E wt \in rp.worktrees : wt.Branch = branchName
  THEN [path |-> (CHOOSE wt \in rp.worktrees : wt.Branch = branchName).Path,
        found |-> TRUE]
  ELSE IF \E wt \in rp.worktrees : wt.Path = GenerateWorktreePath(branchName)
  THEN [path |-> GenerateWorktreePath(branchName), found |-> TRUE]
  ELSE IF \E wt \in rp.worktrees :
            IsHatcherWorktree(wt.Path) /\ extractBranchFromPath(wt.Path) = branchName
  THEN [path |-> (CHOOSE wt \in rp.worktrees :
                    IsHatcherWorktree(wt.Path)
                    /\ extractBranchFromPath(wt.Path) = branchName).Path,
        found |-> TRUE]
  ELSE [path |-> <<>>, found |-> FALSE]

\* git worktree remove, after it succeeded
GitRemoveWorktree(rp, path) ==
  [rp EXCEPT !.worktrees = {wt \in @ : wt.Path # path}, !.files = @ \ {path}]

\* git branch -d, after it succeeded
GitRemoveBranch(rp, branch) == [rp EXCEPT !.local = @ \ {branch}]

\* git push origin --delete, after it succeeded
GitRemoveRemoteBranch(rp, branch) == [rp EXCEPT !.remote = @ \ {branch}]

\* --------------------------------------------------------------- Remover
RemoveOptions ==
  [BranchName : Branches, RemoveBranch : BOOLEAN, RemoveRemote : BOOLEAN,
   Force : BOOLEAN, SkipConfirm : BOOLEAN]

\* RemovalValidation, and the error ValidateRemoval returns
Validation(err, path, exists, localExists, isMain, canRemove, warnings) ==
  [err |-> err, WorktreePath |-> path, WorktreeExists |-> exists,
   LocalBranchExists |-> localExists, IsMainRepository |-> isMain,
   CanRemove |-> canRemove, Warnings |-> warnings]

NoValidation == Validation("nil", <<>>, FALSE, FALSE, FALSE, FALSE, <<>>)

\* a validation that takes the main repository for a worktree like any other
ValidateRemovalOfAny(rp, branchName, fault) ==
  IF fault # "nil"
  THEN Validation(fault, <<>>, FALSE, FALSE, FALSE, FALSE, <<>>)
  ELSE LET f == FindWorktree(rp, branchName)
       IN  IF ~f.found
           THEN NoValidation
           ELSE Validation("nil", f.path, TRUE, branchName \in rp.local, FALSE, TRUE,
                           IF f.path \in rp.files
                           THEN <<"Worktree has uncommitted changes">> ELSE <<>>)

\* Remover.ValidateRemoval; fault is the error of a git command or of
\* os.ReadDir, "nil" when none fails
ValidateRemoval(rp, branchName, fault) ==
  IF fault # "nil"
  THEN Validation(fault, <<>>, FALSE, FALSE, FALSE, FALSE, <<>>)
  ELSE IF /\ branchName = GetCurrentBranch(rp)
          /\ \E wt \in rp.worktrees : wt.Path = Root /\ wt.Branch = branchName
  THEN Validation("nil", <<>>, FALSE, FALSE, TRUE, FALSE,
                  <<"Cannot remove main repository worktree">>)
  ELSE LET f == FindWorktree(rp, branchName)
       IN  IF ~f.found
           THEN NoValidation
           ELSE Validation("nil", f.path, TRUE, branchName \in rp.local, FALSE, TRUE,
                           IF f.path \in rp.files
                           THEN <<"Worktree has uncommitted changes">> ELSE <<>>)

\* RemovalPlan, and the error GetRemovalPlan returns
NoPlan ==
  [err |-> "nil", WillRemoveWorktree |-> FALSE, WillRemoveLocalBranch |-> FALSE,
   WillRemoveRemoteBranch |-> FALSE, Warnings |-> <<>>]

\* Remover.GetRemovalPlan
GetRemovalPlan(rp, o, fault) ==
  LET v == ValidateRemoval(rp, o.BranchName, fault)
  IN  IF v.err # "nil"
      THEN [NoPlan EXCEPT !.err = "validation failed"]
      ELSE [err |-> "nil",
            WillRemoveWorktree |-> v.WorktreeExists,
            WillRemoveLocalBranch |-> o.RemoveBranch /\ v.LocalBranchExists,
            WillRemoveRemoteBranch |-> o.RemoveRemote /\ v.LocalBranchExists,
            Warnings |-> v.Warnings]

\* a confirmation that accepts every plan
ConfirmRemovalAlways(plan, skipConfirm) == TRUE

\* Remover.ConfirmRemoval
ConfirmRemoval(plan, skipConfirm) ==
  IF skipConfirm THEN TRUE
  ELSE IF \/ Len(plan.Warnings) > 0
          \/ plan.WillRemoveLocalBranch
          \/ plan.WillRemoveRemoteBranch
  THEN FALSE
  ELSE TRUE

\* a removal of the local branch whenever it exists
WantsBranchAlways(o, v) == v.LocalBranchExists

\* RemoveWorktree, line 109: options.RemoveBranch && validation.LocalBranchExists
WantsBranch(o, v) == o.RemoveBranch /\ v.LocalBranchExists

\* RemoveWorktree, line 118: options.RemoveRemote && validation.LocalBranchExists
WantsRemote(o, v) == o.RemoveRemote /\ v.LocalBranchExists

\* RemovalResult (BranchName and WorktreePath are those of the call)
NoResult ==
  [WorktreeRemoved |-> FALSE, LocalBranchRemoved |-> FALSE,
   RemoteBranchRemoved |-> FALSE]

\* a call of RemoveWorktree(o) that has not begun; before is the repository
\* at the call and ops the removals asked of the repository, both kept for
\* the record
NewCall(o, rp) ==
  [pc |-> "validate", options |-> o, validation |-> NoValidation, plan |-> NoPlan,
   result |-> NoResult, retNil |-> TRUE, err |-> "nil", before |-> rp, ops |-> <<>>]

\* return nil, err
ReturnError(c, err) == [c EXCEPT !.pc = "returned", !.retNil = TRUE, !.err = err]

\* return result, nil
ReturnResult(c) == [c EXCEPT !.pc = "returned", !.retNil = FALSE, !.err = "nil"]

\* the errors a command of the repository may end with
RepoFaults == {"nil", "exit status 1"}

\* one repository, one call of RemoveWorktree with any options
InitRemove ==
  /\ options \in {o \in PlainOptions :
                    /\ o.MaxWorkers = 1 /\ ~o.ContinueOnError
                    /\ ~o.ShowProgress /\ ~o.ProgressCallback /\ ~o.ErrorCallback}
  /\ cfgItems = {}
  /\ faultBudget = 0
  /\ InitRun
  /\ peer = NoPeer
  /\ repo \in Repositories
  /\ \E o \in RemoveOptions : call = NewCall(o, repo)

\* RemoveWorktree, lines 68-82
Validate ==
  /\ call.pc = "validate"
  /\ \E fault \in RepoFaults :
       LET v == ValidateRemoval(repo, call.options.BranchName, fault)
       IN  call' =
             IF v.err # "nil" THEN ReturnError(call, "validation failed")
             ELSE IF ~v.CanRemove
             THEN IF v.IsMainRepository
                  THEN ReturnError([call EXCEPT !.validation = v],
                                   "cannot remove main repository worktree")
                  ELSE IF ~v.WorktreeExists
                  THEN ReturnError([call EXCEPT !.validation = v], "worktree not found")
                  ELSE ReturnError([call EXCEPT !.validation = v], "removal not allowed")
             ELSE [call EXCEPT !.pc = "plan", !.validation = v]
  /\ UNCHANGED <<repo, copierVars>>

\* RemoveWorktree, lines 84-88
Plan ==
  /\ call.pc = "plan"
  /\ \E fault \in RepoFaults :
       LET p == GetRemovalPlan(repo, call.options, fault)
       IN  call' = IF p.err # "nil"
                   THEN ReturnError(call, "failed to create removal plan")
                   ELSE [call EXCEPT !.pc = "confirm", !.plan = p]
  /\ UNCHANGED <<repo, copierVars>>

\* RemoveWorktree, lines 90-95
Confirm ==
  /\ call.pc = "confirm"
  /\ call' = IF /\ ~call.options.SkipConfirm
                /\ ~ConfirmRemoval(call.plan, call.options.SkipConfirm)
             THEN ReturnError(call, "removal cancelled by user")
             ELSE [call EXCEPT !.pc = "worktree"]
  /\ UNCHANGED <<repo, copierVars>>

\* RemoveWorktree, lines 97-107: r.repo.RemoveWorktree; git refuses to remove
\* the main working tree
RepoRemoveWorktree ==
  /\ call.pc = "worktree"
  /\ IF call.validation.WorktreeExists
     THEN \E fault \in RepoFaults :
            /\ call.validation.WorktreePath = Root => fault # "nil"
            /\ IF fault # "nil"
               THEN /\ call' = ReturnError([call EXCEPT !.ops = Append(@, "worktree")],
                                           "failed to remove worktree")
                    /\ UNCHANGED repo
               ELSE /\ repo' = GitRemoveWorktree(repo, call.validation.WorktreePath)
                    /\ call' = [call EXCEPT !.pc = "branch",
                                            !.ops = Append(@, "worktree"),
                                            !.result.WorktreeRemoved = TRUE]
     ELSE /\ call' = [call EXCEPT !.pc = "branch"]
          /\ UNCHANGED repo
  /\ UNCHANGED copierVars

\* RemoveWorktree, lines 109-116: r.repo.RemoveBranch; git refuses to delete
\* a branch that is checked out in a worktree
RepoRemoveBranch ==
  /\ call.pc = "branch"
  /\ IF WantsBranch(call.options, call.validation)
     THEN \E fault \in RepoFaults :
            /\ (\E wt \in repo.worktrees : wt.Branch = call.options.BranchName)
                 => fault # "nil"
            /\ IF fault # "nil"
               THEN /\ call' = ReturnError([call EXCEPT !.ops = Append(@, "local")],
                                           "failed to remove local branch")
                    /\ UNCHANGED repo
               ELSE /\ repo' = GitRemoveBranch(repo, call.options.BranchName)
                    /\ call' = [call EXCEPT !.pc = "remote",
                                            !.ops = Append(@, "local"),
                                            !.result.LocalBranchRemoved = TRUE]
     ELSE /\ call' = [call EXCEPT !.pc = "remote"]
          /\ UNCHANGED repo
  /\ UNCHANGED copierVars

\* RemoveWorktree, lines 118-124 and 135-137: r.repo.RemoteBranchExists
RepoRemoteBranchExists ==
  /\ call.pc = "remote"
  /\ IF WantsRemote(call.options, call.validation)
     THEN \E fault \in RepoFaults :
            call' = IF fault # "nil"
                    THEN ReturnError(call, "failed to check remote branch")
                    ELSE IF call.options.BranchName \in repo.remote
                    THEN [call EXCEPT !.pc = "push"]
                    ELSE ReturnResult(call)
     ELSE call' = ReturnResult(call)
  /\ UNCHANGED <<repo, copierVars>>

\* RemoveWorktree, lines 126-137: r.repo.RemoveRemoteBranch
RepoRemoveRemoteBranch ==
  /\ call.pc = "push"
  /\ \E fault \in RepoFaults :
       IF fault # "nil"
       THEN /\ call' = ReturnError([call EXCEPT !.ops = Append(@, "remote")],
                                   "failed to remove remote branch")
            /\ UNCHANGED repo
       ELSE /\ repo' = GitRemoveRemoteBranch(repo, call.options.BranchName)
            /\ call' = ReturnResult([call EXCEPT !.ops = Append(@, "remote"),
                                                 !.result.RemoteBranchRemoved = TRUE])
  /\ UNCHANGED copierVars

\* Remover.RemoveWorktree, step by step
RemoveWorktree ==
  \/ Validate
  \/ Plan
  \/ Confirm
  \/ RepoRemoveWorktree
  \/ RepoRemoveBranch
  \/ RepoRemoteBranchExists
  \/ RepoRemoveRemoteBranch

SpecRemove == InitRemove /\ [][RemoveWorktree]_vars

\* ---------------------------------------------------------------- claims
Returned == pc = "returned"
Discovered == 1..Len(tasks)
SomeFailed == \E t \in Discovered : outcome[t] = "failed"
\* the updates the progress stream has accepted, in order
ProgressPut == progressSeen \o progress
CountOf(seq, type) == Cardinality({i \in 1..Len(seq) : seq[i].Type = type})
Kind(t) == IF tasks[t].IsDir THEN "dir" ELSE "file"
SameTask(t, u) ==
  tasks[t].SourcePath = tasks[u].SourcePath /\ tasks[t].DestPath = tasks[u].DestPath
AllProcessed ==
  /\ \A t \in Discovered : dequeued[t] = 1 /\ outcome[t] # "none"
  /\ taskQueue = <<>>
  /\ sent = Len(tasks)

\* C1: with ContinueOnError false, a run in which a task failed returns a
\* non-nil error.
C1_FatalErrorReturned ==
  (Returned /\ ~options.ContinueOnError /\ SomeFailed) => ret # "nil"

\* C2 as stated: under either policy, when Run returns from a run that
\* discovered a task, every task was dequeued and processed and none is left
\* in the queue or in the producer.
C2_AllProcessedAnyPolicy ==
  (Returned /\ Len(tasks) >= 1) => AllProcessed

\* C2 as amended: the same, when ContinueOnError is true or no task failed.
C2_AllProcessedWhenContinuing ==
  (Returned /\ Len(tasks) >= 1 /\ (options.ContinueOnError \/ ~SomeFailed))
    => AllProcessed

C2_Witness ==
  Returned /\ options.ContinueOnError /\ Len(tasks) >= 2 /\ SomeFailed /\ AllProcessed

\* C3: a task is received at most once, no two workers hold the same task, a
\* task in the queue was never received before (none is enqueued again) and a
\* task is processed only by the worker that received it.
C3_AtMostOnce ==
  /\ \A t \in TaskIds : dequeued[t] <= 1
  /\ \A w1, w2 \in Workers : (w1 # w2 /\ wtask[w1] # 0) => wtask[w1] # wtask[w2]
  /\ \A i \in 1..Len(taskQueue) :
       /\ dequeued[taskQueue[i]] = 0
       /\ \A j \in 1..Len(taskQueue) : i # j => taskQueue[i] # taskQueue[j]
  /\ \A t \in TaskIds : outcome[t] # "none" => dequeued[t] = 1

C3_Witness ==
  \E w1, w2 \in Workers :
    /\ w1 # w2 /\ wpc[w1] = "process" /\ wpc[w2] = "result"
    /\ wtask[w1] # 0 /\ wtask[w2] # 0

\* C4: completedTasks never decreases and never exceeds totalTasks, and
\* copiedBytes never exceeds totalBytes.
C4_Counters ==
  /\ [](completedTasks <= totalTasks /\ copiedBytes <= totalBytes)
  /\ [][completedTasks' >= completedTasks]_vars

C4_Witness ==
  /\ totalTasks >= 2 /\ completedTasks = totalTasks
  /\ totalBytes > 0 /\ copiedBytes = totalBytes

\* C5: with ShowProgress and a ProgressCallback, the callback of a run that
\* copied something has received the start and the complete update when Run
\* returns.
C5_StartAndCompleteDelivered ==
  (Returned /\ ret = "nil" /\ totalTasks > 0
     /\ options.ShowProgress /\ options.ProgressCallback)
    => /\ \E i \in 1..Len(progressSeen) : progressSeen[i].Type = "start"
       /\ \E i \in 1..Len(progressSeen) : progressSeen[i].Type = "complete"

\* C6: the updates put on the progress stream hold exactly one start, the
\* first of them and put before any worker is launched, and exactly one
\* complete, the last of them.
C6_OneStartOneComplete ==
  /\ (options.ShowProgress /\ \E w \in Workers : wpc[w] # "unused")
       => (ProgressPut # <<>> /\ ProgressPut[1].Type = "start")
  /\ (Returned /\ totalTasks > 0 /\ options.ShowProgress)
       => /\ CountOf(ProgressPut, "start") = 1
          /\ CountOf(ProgressPut, "complete") = 1
          /\ ProgressPut[Len(ProgressPut)].Type = "complete"

\* C7: the Current values the progress callback is called with never decrease.
C7_CurrentNonDecreasing ==
  \A i, j \in 1..Len(progressSeen) :
    i < j => progressSeen[i].Current <= progressSeen[j].Current

C9_EveryFailureDelivered ==
  (Returned /\ ret = "nil" /\ options.ErrorCallback) =>
    \A t \in Discovered :
      outcome[t] = "failed" =>
        Cardinality({i \in 1..Len(errorsSeen) :
                       /\ errorsSeen[i].SourcePath = tasks[t].SourcePath
                       /\ errorsSeen[i].DestPath = tasks[t].DestPath})
          = Cardinality({u \in Discovered : SameTask(t, u) /\ outcome[u] = "failed"})

\* the item names a path, not a pattern, and nothing is at that path
NamesMissingPath(it) ==
  it # NoItem /\ ~IsGlobPattern(it.Path) /\ SrcKind(it.Path) = "missing"

\* C10 as stated: an item whose source path does not exist yields no task and
\* no error, whatever its flags, and the run does not fail.
C10_MissingSourceSilent ==
  NamesMissingPath(item) =>
    /\ itemResult = Found(<<>>)
    /\ ret # "failed to discover copy tasks"

\* C10 as amended: such an item yields no task; it yields no error and leaves
\* the run and the error stream as they are when autoDetect (or useGlob) is
\* set; otherwise discovery fails on it with the stat error, which ends the
\* run when ContinueOnError is false and is sent to the error stream, the
\* item being skipped, when it is true.
C10_MissingSource ==
  [][(nItems' = nItems + 1 /\ NamesMissingPath(item')) =>
       /\ itemResult'.tasks = <<>>
       /\ IF item'.AutoDetect \/ item'.UseGlob
          THEN /\ itemResult'.err = "nil"
               /\ UNCHANGED <<tasks, errors, pc, ret>>
          ELSE /\ itemResult'.err = "stat"
               /\ IF options.ContinueOnError
                  THEN /\ UNCHANGED <<tasks, pc, ret>>
                       /\ (Len(errors) < ErrorsCap =>
                             errors' = Append(errors,
                                              CopyError(RelPath(item'.Path), NoPath, "stat")))
                  ELSE /\ pc' = "returned"
                       /\ ret' = "failed to discover copy tasks"]_vars

C10_Witness ==
  /\ NamesMissingPath(item) /\ item.AutoDetect /\ item.Directory = "false"
  /\ itemResult = Found(<<>>) /\ pc = "discover" /\ nItems = 2

\* nothing of the run has started: no worker, no producer, no task queued or
\* received, no update put on the progress stream, nothing under destDir
NothingStarted ==
  /\ \A w \in Workers : wpc[w] = "unused"
  /\ wg = 0 /\ producer = "idle" /\ sent = 0
  /\ taskQueue = <<>> /\ ~taskQueueClosed /\ results = <<>>
  /\ \A t \in TaskIds : dequeued[t] = 0 /\ outcome[t] = "none"
  /\ ProgressPut = <<>>
  /\ \A p \in RelPaths : destFS[p] = "none"

\* C11: with ContinueOnError false, once discovery has failed on an item Run
\* has returned the discovery error, and no worker was launched, no task
\* enqueued, no start update sent and nothing written under destDir.
C11_DiscoveryFailure ==
  (~options.ContinueOnError /\ itemResult.err # "nil")
    => /\ Returned /\ ret = "failed to discover copy tasks"
       /\ NothingStarted

C11_Witness ==
  /\ ~options.ContinueOnError /\ itemResult.err # "nil" /\ nItems = 2
  /\ Returned /\ ret = "failed to discover copy tasks"
  /\ options.ShowProgress /\ options.MaxWorkers = 2

\* C12: once discovery has ended without an error and without a task, Run
\* has returned nil, and no worker was started, no task enqueued and nothing
\* written under destDir.
C12_ZeroTasks ==
  (pc \notin {"entry", "discover"} /\ Len(tasks) = 0
     /\ ret # "failed to discover copy tasks")
    => /\ Returned /\ ret = "nil"
       /\ NothingStarted

C12_Witness ==
  /\ Returned /\ ret = "nil" /\ Len(tasks) = 0 /\ nItems = 2
  /\ options.ShowProgress /\ options.MaxWorkers = 2

\* the workers that hold the error of a failed task
FailedWorkers == {w \in Workers : werr[w] # "nil"}

\* C13: with ContinueOnError false, a worker whose task failed receives no
\* further task and puts one signal on the results channel before it exits,
\* so that the channel holds one signal per failed worker that has exited;
\* no other worker is stopped: a worker without a failure exits only when the
\* queue is closed and empty.
C13_FatalFailure ==
  /\ [](~options.ContinueOnError =>
          /\ Faults = Cardinality(FailedWorkers)
          /\ Len(results) = Cardinality({w \in FailedWorkers : wpc[w] = "exited"})
          /\ \A w \in FailedWorkers : wpc[w] \in {"result", "exited"}
          /\ \A w \in Workers \ FailedWorkers :
               wpc[w] = "exited" => (taskQueue = <<>> /\ taskQueueClosed))
  /\ [][\A w \in FailedWorkers :
          ~options.ContinueOnError =>
            /\ wtask'[w] = wtask[w] /\ werr'[w] = werr[w]
            /\ wpc'[w] \in {"result", "exited"}
            /\ (wpc[w] = "exited" => wpc'[w] = "exited")]_vars

C13_Witness ==
  /\ ~options.ContinueOnError
  /\ \E w1, w2 \in Workers :
       /\ wpc[w1] = "exited" /\ werr[w1] # "nil" /\ Len(results) = 1
       /\ wpc[w2] = "recv" /\ taskQueue # <<>>

\* C14: the task queue is closed only by the producer, after its last send,
\* and nothing is sent on it afterwards; the progress and error streams are
\* closed only by Run, after every worker has exited and after the complete
\* update was sent, and nothing is sent on them afterwards: every process
\* that sends on a stream is past its last send when the stream is closed.
C14_NoSendOnClosed ==
  /\ [](taskQueueClosed => (producer = "done" /\ sent = Len(tasks)))
  /\ []((progressClosed \/ errorsClosed) =>
          /\ progressClosed /\ errorsClosed
          /\ pc \in {"waitHandlers", "returned"}
          /\ wg = 0
          /\ \A w \in Workers : wpc[w] \in {"unused", "exited"})
  /\ [][/\ taskQueueClosed =>
            (taskQueueClosed' /\ Len(taskQueue') <= Len(taskQueue) /\ sent' = sent)
        /\ progressClosed => (progressClosed' /\ Len(progress') <= Len(progress))
        /\ errorsClosed => (errorsClosed' /\ Len(errors') <= Len(errors))
        /\ (~progressClosed /\ progressClosed') => pc = "close"
        /\ (~taskQueueClosed /\ taskQueueClosed') => producer = "sending"]_vars

C14_Witness ==
  /\ taskQueueClosed /\ progressClosed /\ errorsClosed
  /\ options.MaxWorkers = 2 /\ Len(tasks) = 2 /\ results # <<>>
  /\ errorWg = 1 /\ errors # <<>>

\* C15: under fair scheduling of the goroutines every call of Run returns,
\* whatever the number of workers and of tasks, the policy and the callbacks.
C15_RunReturns == <>Returned

C15_Witness ==
  /\ Returned /\ ret = "nil" /\ ~options.ContinueOnError /\ SomeFailed
  /\ options.MaxWorkers = 1 /\ sent < Len(tasks) /\ producer = "sending"
  /\ progressWg = 0 /\ errorWg = 0 /\ options.ErrorCallback

\* the path of task t under destDir
Rel(t) == tasks[t].DestPath[2]

\* C16: whatever the order in which the workers execute the tasks of a tree
\* (a directory, a directory in it, files in them), no task fails because of
\* what is or is not yet at the destination (a directory that exists already,
\* a parent whose task has not run): the only failures are the I/O failures
\* of the environment.
C16_MkdirIdempotent ==
  \A t \in TaskIds : outcome[t] = "failed" => cause[t] = "EIO"

\* a file was copied into a directory whose task a worker is about to run
C16_Witness ==
  \E w \in Workers, t \in Discovered :
    /\ wpc[w] = "process" /\ tasks[wtask[w]].IsDir
    /\ destFS[Rel(wtask[w])] = "dir"
    /\ ~tasks[t].IsDir /\ outcome[t] = "ok" /\ Dir(Rel(t)) = Rel(wtask[w])
    /\ \E u \in Discovered : tasks[u].IsDir /\ Rel(u) = Dir(Rel(wtask[w]))
                               /\ outcome[u] = "ok"

\* the tree under destDir after the tasks ts are executed one after the
\* other, in the order of the list, none failing
RECURSIVE Sequential(_, _)
Sequential(fs, ts) ==
  IF ts = <<>> THEN fs
  ELSE Sequential(processTask(fs, Head(ts), "ok").fs, Tail(ts))

\* C17: when Run returns from a run in which no task failed, every file task
\* has a complete copy of its source at its destination ("file": the bytes of
\* the source, all of them), every directory task has its directory, all the
\* bytes are counted, and the tree under destDir is the one a sequential
\* execution of the task list leaves, whatever MaxWorkers and the
\* interleaving.
C17_SameFinalState ==
  (Returned /\ ret = "nil" /\ Len(tasks) >= 1 /\ ~SomeFailed) =>
    /\ \A t \in Discovered : destFS[Rel(t)] = Kind(t)
    /\ destFS = Sequential([p \in RelPaths |-> "none"], tasks)
    /\ copiedBytes = SumSizes(tasks) /\ completedTasks = Len(tasks)

C17_Witness ==
  /\ Returned /\ ret = "nil" /\ ~SomeFailed
  /\ options.MaxWorkers = 2 /\ Len(tasks) = 4
  /\ destFS["d/s/y"] = "file" /\ destFS["a"] = "file" /\ copiedBytes = 3

\* the run set aside has returned, and a task of it failed
PeerReturned == peer # NoPeer /\ peer.pc = "returned"
PeerFailed == \E t \in 1..Len(peer.tasks) : peer.outcome[t] = "failed"

\* C18: two ParallelCopiers run concurrently on the same source files and on
\* two destination roots do not interfere.  A step of one leaves the fields
\* of the other (its counters, its channels, its task list) and the tree
\* under the other's root as they were; and when both have returned and no
\* task of either failed, both returned nil, the tree under each root is the
\* one a sequential execution of that run's own task list leaves, with every
\* file of the list in it, and each run has counted its own tasks and bytes.
C18_NoInterference ==
  /\ []((Returned /\ PeerReturned /\ ~SomeFailed /\ ~PeerFailed) =>
         /\ ret = "nil" /\ peer.ret = "nil"
         /\ destDir # peer.destDir
         /\ disk[destDir] = Sequential([p \in RelPaths |-> "none"], tasks)
         /\ disk[peer.destDir] = Sequential([p \in RelPaths |-> "none"], peer.tasks)
         /\ \A t \in Discovered : disk[destDir][Rel(t)] = Kind(t)
         /\ \A t \in 1..Len(peer.tasks) :
               disk[peer.destDir][peer.tasks[t].DestPath[2]] =
                 (IF peer.tasks[t].IsDir THEN "dir" ELSE "file")
         /\ completedTasks = Len(tasks) /\ copiedBytes = SumSizes(tasks)
         /\ peer.completedTasks = Len(peer.tasks)
         /\ peer.copiedBytes = SumSizes(peer.tasks))
  /\ [][(peer # NoPeer /\ destDir' = destDir) =>
          /\ peer' = peer
          /\ disk'[peer.destDir] = disk[peer.destDir]]_vars

C18_Witness ==
  /\ Returned /\ PeerReturned /\ ~SomeFailed /\ ~PeerFailed
  /\ Len(tasks) = 2 /\ Len(peer.tasks) = 1
  /\ disk[destDir]["a"] = "file" /\ disk[peer.destDir]["a"] = "file"
  /\ copiedBytes = 2 * peer.copiedBytes /\ peer.copiedBytes > 0

\* the task of worker w failed at this step because the digests differ
MismatchStep(w) ==
  /\ wpc[w] = "process" /\ wpc'[w] # "process"
  /\ cause'[wtask[w]] = "mismatch"

\* C19: in a copy with verification, a task whose digests differ is a failed
\* task: its CopyError is sent to the error stream and the worker then does
\* what the policy says, as after an I/O failure (it goes on to the counters
\* and the next task with ContinueOnError, and to the results channel and its
\* exit without); the file written at the destination stays there, then and
\* ever after.
C19_MismatchFails ==
  /\ [][\A w \in Workers : MismatchStep(w) =>
          /\ options.VerifyIntegrity
          /\ outcome'[wtask[w]] = "failed"
          /\ werr'[w] = "integrity verification failed"
          /\ errors' = sendError(CopyError(tasks[wtask[w]].SourcePath,
                                           tasks[wtask[w]].DestPath,
                                           "integrity verification failed"))
          /\ wpc'[w] = (IF options.ContinueOnError THEN "update" ELSE "result")
          /\ destFS'[Rel(wtask[w])] = "unverified"]_vars
  /\ [](\A t \in Discovered : cause[t] = "mismatch" => destFS[Rel(t)] # "none")

C19_Witness ==
  /\ Returned /\ options.ContinueOnError /\ options.ErrorCallback
  /\ \E t \in Discovered :
       /\ cause[t] = "mismatch" /\ outcome[t] = "failed"
       /\ destFS[Rel(t)] = "unverified"
       /\ \E i \in 1..Len(errorsSeen) :
            errorsSeen[i] = CopyError(tasks[t].SourcePath, tasks[t].DestPath,
                                      "integrity verification failed")

\* the explicit Directory value of the item it conflicts with what is at p
Conflicts(p, it) ==
  \/ SrcKind(p) = "dir" /\ it.Directory = "false"
  \/ SrcKind(p) = "file" /\ it.Directory = "true"

\* the entries an item stands for: the matches of its pattern, or its path
RECURSIVE Range(_)
Range(seq) == IF seq = <<>> THEN {} ELSE {Head(seq)} \cup Range(Tail(seq))
Entries(it) == IF it.UseGlob THEN Range(Glob(it.Path).matches) ELSE {it.Path}

\* C20: when discovery takes an item one of whose entries conflicts with the
\* item's explicit Directory value: with ContinueOnError false the run ends
\* with the discovery error; with ContinueOnError true the entry adds no task,
\* an error naming the item is put on the error stream (when the stream has
\* room), and discovery goes on with the remaining items; for a plain path
\* and for the matches of a glob item alike.
C20_TypeConflict ==
  [][(nItems' = nItems + 1 /\ \E p \in Entries(item') : Conflicts(p, item')) =>
       IF ~options.ContinueOnError
       THEN pc' = "returned" /\ ret' = "failed to discover copy tasks"
       ELSE /\ pc' = "discover" /\ ret' = ret
            /\ \A p \in Entries(item') :
                 Conflicts(p, item') =>
                   \A i \in Len(tasks) + 1 .. Len(tasks') : tasks'[i].DestPath[2] # p
            /\ Len(errors) < ErrorsCap =>
                 /\ Len(errors') = Len(errors) + 1
                 /\ errors'[Len(errors')].SourcePath = RelPath(item'.Path)]_vars

\* the progress-type updates the progress stream has accepted
ProgressSamples == {i \in 1..Len(ProgressPut) : ProgressPut[i].Type = "progress"}
\* the workers that have read the counters and are about to send an update
Senders == {w \in Workers : wpc[w] = "sendProgress"}

\* the counts carried by accepted and pending updates are positive multiples
\* of the interval, and no count is carried twice
SampledOnce ==
  /\ \A i \in ProgressSamples :
       /\ ProgressPut[i].Current > 0
       /\ ProgressPut[i].Current % ProgressEvery = 0
       /\ ProgressPut[i].Current <= completedTasks
  /\ \A i, j \in ProgressSamples :
       ProgressPut[i].Current = ProgressPut[j].Current => i = j
  /\ \A w \in Senders :
       /\ wsnap[w].current > 0
       /\ wsnap[w].current % ProgressEvery = 0
       /\ \A v \in Senders : wsnap[v].current = wsnap[w].current => v = w
       /\ \A i \in ProgressSamples : ProgressPut[i].Current # wsnap[w].current

\* C23: progress-type updates follow the global count of completed tasks.
\* The worker whose increment brings the count to a multiple of the sampling
\* interval goes on to send an update carrying that count (when ShowProgress
\* is set), and no other worker sends one; so the updates about to be sent
\* and those on the stream carry counts that are positive multiples of the
\* interval, and no count is carried twice, whatever the number of workers.
C23_SampledCounts ==
  /\ []SampledOnce
  /\ [][\A w \in Workers :
          (wpc[w] = "update" /\ wpc'[w] # "update") =>
            /\ completedTasks' = completedTasks + 1
            /\ (wpc'[w] = "sendProgress") =
                 (options.ShowProgress /\ completedTasks' % ProgressEvery = 0)
            /\ wpc'[w] = "sendProgress" => wsnap'[w].current = completedTasks']_vars

C23_Witness ==
  /\ options.MaxWorkers = 2 /\ Senders = {2}
  /\ wsnap[2].current = 2 * ProgressEvery
  /\ \E i \in ProgressSamples : ProgressPut[i].Current = ProgressEvery

\* C24: the counters of a run are fresh at every call of Run: a call starts
\* with completedTasks, copiedBytes and totalBytes at 0, and at any moment of
\* any call completedTasks <= totalTasks and copiedBytes <= totalBytes.
C24_FreshRunState ==
  /\ pc = "entry" => completedTasks = 0 /\ copiedBytes = 0 /\ totalBytes = 0
  /\ completedTasks <= totalTasks
  /\ copiedBytes <= totalBytes

\* C25: whenever Run has returned, by whatever path, both streams are closed,
\* both consumers have terminated, and no error is left in the error stream:
\* every error the stream accepted has been passed to ErrorCallback.
C25_StreamsFinalized ==
  Returned =>
    /\ progressClosed /\ errorsClosed
    /\ progressWg = 0 /\ errorWg = 0
    /\ errors = <<>> /\ progress = <<>>

\* the producer is at a send on the full task queue and no worker is left to
\* receive from it; nothing can change that
ProducerStuck ==
  /\ producer = "sending" /\ sent < Len(tasks)
  /\ Len(taskQueue) = 2 * options.MaxWorkers
  /\ \A w \in Workers : wpc[w] \in {"exited", "unused"}

\* C26: in a run that has started its workers the producer is never left
\* blocked for good on a full task queue, so that it sends its last task and
\* closes the queue; also with ContinueOnError false after the workers have
\* stopped at a failure.
C26_ProducerNeverStuck ==
  pc \notin {"entry", "discover", "sendStart", "startWorkers"} => ~ProducerStuck

\* the tasks processed without error, and their bytes
OkTasks == {t \in Discovered : outcome[t] = "ok"}
RECURSIVE OkBytes(_)
OkBytes(n) ==
  IF n = 0 THEN 0
  ELSE OkBytes(n - 1) + (IF outcome[n] = "ok" THEN tasks[n].Size ELSE 0)

\* C27: no counter update is lost.  When Run returns from a run that started
\* workers, with ContinueOnError true completedTasks = totalTasks and
\* copiedBytes = totalBytes (a failed task is counted, with its whole size),
\* and with ContinueOnError false completedTasks is the number of tasks that
\* were processed without error and copiedBytes the sum of their sizes; for
\* every number of workers and every interleaving.
C27_NoLostUpdate ==
  (Returned /\ Len(tasks) >= 1) =>
    /\ totalTasks = Len(tasks) /\ totalBytes = SumSizes(tasks)
    /\ options.ContinueOnError =>
         completedTasks = totalTasks /\ copiedBytes = totalBytes
    /\ ~options.ContinueOnError =>
         completedTasks = Cardinality(OkTasks) /\ copiedBytes = OkBytes(Len(tasks))

C27_Witness ==
  /\ Returned /\ options.MaxWorkers = 2 /\ options.ContinueOnError
  /\ SomeFailed /\ Len(tasks) >= 2
  /\ completedTasks = Len(tasks) /\ copiedBytes > 0

C27_WitnessStopped ==
  /\ Returned /\ options.MaxWorkers = 2 /\ ~options.ContinueOnError
  /\ SomeFailed /\ completedTasks >= 1 /\ completedTasks < Len(tasks)

\* C28: every progress and complete update ProgressCallback is called with
\* has Current <= Total, BytesCopied <= TotalBytes and Percentage =
\* 100 * Current / Total; so a complete update that says 100 has Current =
\* Total.
C28_ConsistentUpdates ==
  \A i \in 1..Len(progressSeen) :
    progressSeen[i].Type \in {"progress", "complete"} =>
      /\ progressSeen[i].Current <= progressSeen[i].Total
      /\ progressSeen[i].BytesCopied <= progressSeen[i].TotalBytes
      /\ progressSeen[i].Percentage[1] * progressSeen[i].Total =
           100 * progressSeen[i].Current * progressSeen[i].Percentage[2]

\* the call of RemoveWorktree has returned
Removed == call.pc = "returned"
\* the call is for the branch of the main repository
OfMainRepository == call.options.BranchName = GetCurrentBranch(call.before)
\* the call is for a branch for which the repository had no worktree
OfNoWorktree == ~FindWorktree(call.before, call.options.BranchName).found

\* C21: a call of RemoveWorktree for the branch of the main repository, or
\* for a branch that has no worktree, never gets past the validation: it asks
\* no removal of the repository, which stays as it was, and it returns a nil
\* result and an error ("cannot remove main repository worktree", "worktree
\* not found", or "validation failed" when a git command failed), whatever
\* the other options.
C21_Refused ==
  (OfMainRepository \/ OfNoWorktree) =>
    /\ call.pc \in {"validate", "returned"}
    /\ call.ops = <<>>
    /\ repo = call.before
    /\ Removed =>
         /\ call.retNil
         /\ call.err \in {"validation failed",
                          IF OfMainRepository
                          THEN "cannot remove main repository worktree"
                          ELSE "worktree not found"}

C21_Witness ==
  /\ Removed /\ OfNoWorktree /\ call.err = "worktree not found"
  /\ call.options.BranchName \in repo.local \cap repo.remote
  /\ call.options.RemoveBranch /\ call.options.RemoveRemote
  /\ call.options.SkipConfirm /\ call.options.Force

C21_WitnessMain ==
  /\ Removed /\ OfMainRepository
  /\ call.err = "cannot remove main repository worktree"
  /\ call.options.RemoveBranch /\ call.options.SkipConfirm

\* the removals asked of the repository, as a set
Ops == {call.ops[i] : i \in 1..Len(call.ops)}
\* the repository of the call without what the result says was removed
AfterRemovals ==
  LET b == call.options.BranchName
      r1 == IF call.result.WorktreeRemoved
            THEN GitRemoveWorktree(call.before, call.validation.WorktreePath)
            ELSE call.before
      r2 == IF call.result.LocalBranchRemoved THEN GitRemoveBranch(r1, b) ELSE r1
  IN  IF call.result.RemoteBranchRemoved THEN GitRemoveRemoteBranch(r2, b) ELSE r2

\* C22: when RemoveWorktree returns a result and no error, the worktree was
\* removed, and first; the local branch was removed exactly if RemoveBranch
\* is set and the branch existed; the remote branch was removed only if
\* RemoveRemote is set and it existed; the three flags of the result say
\* exactly which removals were done, the repository differs from the one
\* before the call by these removals and nothing else, and with RemoveBranch
\* false the local branches are those of before.
C22_Removals ==
  (Removed /\ call.err = "nil") =>
    /\ ~call.retNil
    /\ call.result.WorktreeRemoved /\ call.ops[1] = "worktree"
    /\ \A wt \in repo.worktrees : wt.Path # call.validation.WorktreePath
    /\ call.result.LocalBranchRemoved = ("local" \in Ops)
    /\ call.result.LocalBranchRemoved =
         (call.options.RemoveBranch /\ call.options.BranchName \in call.before.local)
    /\ call.result.RemoteBranchRemoved = ("remote" \in Ops)
    /\ call.result.RemoteBranchRemoved =>
         call.options.RemoveRemote /\ call.options.BranchName \in call.before.remote
    /\ call.ops \in {<<"worktree">>, <<"worktree", "local">>,
                      <<"worktree", "remote">>, <<"worktree", "local", "remote">>}
    /\ repo = AfterRemovals
    /\ ~call.options.RemoveBranch => repo.local = call.before.local

C22_Witness ==
  /\ Removed /\ call.err = "nil"
  /\ call.ops = <<"worktree", "local", "remote">>
  /\ call.options.BranchName = "feat"
  /\ "feat" \notin repo.local \cup repo.remote
  /\ "feat" \in call.before.local \cap call.before.remote

C22_WitnessWorktreeOnly ==
  /\ Removed /\ call.err = "nil" /\ ~call.options.RemoveBranch
  /\ call.options.BranchName = "feat" /\ "feat" \in repo.local
  /\ call.ops = <<"worktree">>

\* C29: RemoveWorktree is all or nothing: when it has returned an error, the
\* worktrees, the local branches and the remote branches are those of before
\* the call.
C29_AllOrNothing ==
  (Removed /\ call.err # "nil") => repo = call.before

\* the plan of the call has a warning or a branch removal in it
Dangerous ==
  \/ Len(call.plan.Warnings) > 0
  \/ call.plan.WillRemoveLocalBranch
  \/ call.plan.WillRemoveRemoteBranch

\* C30: with SkipConfirm false, a call whose plan has a warning or a local or
\* remote branch removal in it stops at the confirmation: it asks no removal
\* of the repository, which stays as it was, and returns a nil result and
\* "removal cancelled by user".  With SkipConfirm true the confirmation lets
\* every call through to the removal of the worktree, and no call is ever
\* cancelled.
C30_Confirmation ==
  /\ []((~call.options.SkipConfirm /\ Dangerous) =>
          /\ call.pc \in {"confirm", "returned"}
          /\ call.ops = <<>> /\ repo = call.before
          /\ Removed => call.retNil /\ call.err = "removal cancelled by user")
  /\ [](call.options.SkipConfirm => call.err # "removal cancelled by user")
  /\ [][(call.pc = "confirm" /\ call.options.SkipConfirm) =>
           call'.pc = "worktree"]_vars

C30_Witness ==
  /\ Removed /\ ~call.options.SkipConfirm
  /\ call.err = "removal cancelled by user"
  /\ call.plan.Warnings = <<>> /\ call.plan.WillRemoveRemoteBranch
  /\ ~call.plan.WillRemoveLocalBranch

C30_WitnessSkip ==
  /\ call.pc = "worktree" /\ call.options.SkipConfirm /\ Dangerous
  /\ Len(call.plan.Warnings) > 0

====
